---- MODULE Spec2Model ----
(***************************************************************************)
(* The explicit-free-list allocator of mm.c over its raw heap.             *)
(*                                                                         *)
(* The heap is modelled as the 8-byte words the allocator has written:     *)
(* mem maps the address of a word to its content, a header/footer word     *)
(* [k |-> "hdr", a, s] (allocated bit, 31-bit block_size) or a link word   *)
(* [k |-> "ptr", p].  A word that is not in DOMAIN mem holds bytes the     *)
(* allocator does not determine: memory fresh from mem_sbrk, or the        *)
(* payload of a block handed to the client.  When the code reads such a    *)
(* word as metadata, or touches an address outside the heap, the call has  *)
(* no defined result and status becomes "undefined".                       *)
(*                                                                         *)
(* size_t values are kept as four 16-bit limbs (least significant limb     *)
(* first) so that the 64-bit request size, its truncation into the         *)
(* uint32_t asize and the 31-bit header field are computed as the build    *)
(* computes them.                                                          *)
(***************************************************************************)
EXTENDS Integers, Naturals, Sequences, FiniteSets, TLC

VARIABLES mem, prologue, epilogue_global, brk, status, live, nsbrk, ncalls, last

vars == <<mem, prologue, epilogue_global, brk, status, live, nsbrk, ncalls, last>>

(***************************************************************************)
(* Program constants.                                                      *)
(***************************************************************************)
NULL == 0
CHUNKSIZE == 65536
HEADER_SIZE == 8
BLOCK_T_SIZE == 24
OVERHEAD == 16
MIN_BLOCK_SIZE == 32
SMALL_PAYLOAD == 100
GROWTH_FACTOR == 6
NEXT_OFF == 8
PREV_OFF == 16
FREE == 0
ALLOC == 1

(* Width of one limb of a size_t, and of the header's size field. *)
LIMB == 65536
HALF_LIMB == 32768

(* Where mem_sbrk's region starts; any non-null 8-aligned address. *)
HeapBase == 4096

(***************************************************************************)
(* Bounds of the model.                                                    *)
(***************************************************************************)
MaxLive == 3
MaxSbrk == 2
MaxCalls == 5

(***************************************************************************)
(* size_t arithmetic on limbs.                                             *)
(***************************************************************************)
FromInt(i) == <<i % LIMB, (i \div LIMB) % LIMB, 0, 0>>

(* x + k modulo 2^64, for 0 <= k < LIMB *)
AddSmall(x, k) ==
    LET s1 == x[1] + k
        s2 == x[2] + (s1 \div LIMB)
        s3 == x[3] + (s2 \div LIMB)
        s4 == x[4] + (s3 \div LIMB)
    IN  <<s1 % LIMB, s2 % LIMB, s3 % LIMB, s4 % LIMB>>

(* conversion of a size_t to uint32_t *)
ToU32(x) == <<x[1], x[2], 0, 0>>

IsZero(x) == x = <<0, 0, 0, 0>>

(* the value fits a non-negative int (and the 31-bit size field) *)
Fits31(x) == x[3] = 0 /\ x[4] = 0 /\ x[2] < HALF_LIMB

ToInt(x) == x[2] * LIMB + x[1]

(* x <= i and x < i for a size_t x and a non-negative int i *)
LeqInt(x, i) == Fits31(x) /\ ToInt(x) <= i
LtInt(x, i) == Fits31(x) /\ ToInt(x) < i

(***************************************************************************)
(* Memory words.                                                           *)
(***************************************************************************)
Hdr(a, s) == [k |-> "hdr", a |-> a, s |-> s]
Ptr(p) == [k |-> "ptr", p |-> p]

Known(m, a) == a \in DOMAIN m

(* the largest value of the 31-bit block_size field and of an int *)
MAX31 == 2147483647

(* x >> 3 and x << 3 on a size_t *)
Shr3(x) ==
    << (x[1] \div 8) + (x[2] % 8) * 8192,
       (x[2] \div 8) + (x[3] % 8) * 8192,
       (x[3] \div 8) + (x[4] % 8) * 8192,
       x[4] \div 8 >>

Shl3(x) ==
    << (x[1] * 8) % LIMB,
       ((x[2] * 8) % LIMB) + (x[1] \div 8192),
       ((x[3] * 8) % LIMB) + (x[2] \div 8192),
       ((x[4] * 8) % LIMB) + (x[3] \div 8192) >>

(* a + b stored into the 31-bit size field *)
Add31(a, b) == IF a > MAX31 - b THEN (a - MAX31) + (b - 1) ELSE a + b

(* the word lies inside the heap region obtained from mem_sbrk *)
InHeap(b, a) == a >= HeapBase /\ a + 8 <= b /\ a % 8 = 0

Wr(m, a, w) == [x \in (DOMAIN m) \cup {a} |-> IF x = a THEN w ELSE m[x]]

Forget(m, S) == [x \in (DOMAIN m) \ S |-> m[x]]

(* The header view of a known word: a link word read through header_t     *)
(* shows its low 32 bits.                                                  *)
AsHdr(w) ==
    IF w.k = "hdr" THEN w
    ELSE Hdr(w.p % 2, w.p \div 2)

IsPtr(m, a) == Known(m, a) /\ m[a].k = "ptr"

Alloc(m, a) == AsHdr(m[a]).a
Size(m, a) == AsHdr(m[a]).s

(* bit-field stores: the other field of the word is kept, and a word of  *)
(* undetermined content stays undetermined                                *)
SetAlloc(m, a, v) == IF Known(m, a) THEN Wr(m, a, Hdr(v, Size(m, a))) ELSE m
SetSize(m, a, s) == IF Known(m, a) THEN Wr(m, a, Hdr(Alloc(m, a), s)) ELSE m

(* the stores ws = << <<address, word>>, ... >> made in order *)
WrAll(m, ws) ==
    LET at == {ws[i][1] : i \in DOMAIN ws}
        lastAt(x) == CHOOSE i \in DOMAIN ws :
                        ws[i][1] = x /\ \A j \in DOMAIN ws : ws[j][1] = x => j <= i
    IN  [x \in (DOMAIN m) \cup at |-> IF x \in at THEN ws[lastAt(x)][2] ELSE m[x]]

(* a local variable of the C code: v is computed once, and F is the code  *)
(* that follows the assignment                                            *)
With(v, F(_)) == CHOOSE r \in {F(x) : x \in {v}} : TRUE

(* results of the helper routines: the memory, whether the run was        *)
(* defined, and the returned pointer                                      *)
Ret(m, r) == [m |-> m, ok |-> TRUE, r |-> r]
Bad(m) == [m |-> m, ok |-> FALSE, r |-> NULL]

(* get_footer *)
get_footer(m, block) == block + Size(m, block) - HEADER_SIZE

(* a stitching that stores only the forward link: the successor of blk     *)
(* keeps pointing back at blk                                              *)
UnlinkForwardOnly(m0, top, blk) ==
    IF ~(IsPtr(m0, blk + PREV_OFF) /\ IsPtr(m0, blk + NEXT_OFF)) THEN Bad(m0)
    ELSE IF ~InHeap(top, m0[blk + PREV_OFF].p + NEXT_OFF) THEN Bad(m0)
    ELSE Ret(Wr(m0, m0[blk + PREV_OFF].p + NEXT_OFF, Ptr(m0[blk + NEXT_OFF].p)), blk)

(***************************************************************************)
(* Free-list stitching shared by place and coalesce: make the list         *)
(* neighbours of blk point to each other.                                  *)
(***************************************************************************)
Unlink(m0, top, blk) ==
    With(m0, LAMBDA m :
        IF ~(IsPtr(m, blk + PREV_OFF) /\ IsPtr(m, blk + NEXT_OFF)) THEN Bad(m)
        ELSE LET p == m[blk + PREV_OFF].p
                 t == m[blk + NEXT_OFF].p
             IN  IF ~(InHeap(top, p + NEXT_OFF) /\ InHeap(top, t + PREV_OFF)) THEN Bad(m)
                 ELSE Ret(WrAll(m, << <<p + NEXT_OFF, Ptr(t)>>,
                                      <<t + PREV_OFF, Ptr(p)>> >>), blk))

(* the block that starts right behind the prologue: it has no footer       *)
(* before it, and coalesce takes its predecessor for allocated             *)
FirstBlock(pro, block) == block - BLOCK_T_SIZE = pro

(***************************************************************************)
(* coalesce - boundary tag coalescing; returns the coalesced block.        *)
(***************************************************************************)
coalesce(m0, top, pro, block) ==
    With(m0, LAMBDA m :
        IF ~Known(m, block) THEN Bad(m)
        ELSE
        LET prev_footer == block - HEADER_SIZE
            next_header == block + Size(m, block)
            first == FirstBlock(pro, block)
        IN
        IF ~Known(m, next_header) \/ (~first /\ ~Known(m, prev_footer)) THEN Bad(m)
        ELSE
        LET prev_alloc == first \/ Alloc(m, prev_footer) = 1
            next_alloc == Alloc(m, next_header) = 1
            prev_block == prev_footer - Size(m, prev_footer) + HEADER_SIZE
        IN
        IF prev_alloc /\ next_alloc THEN Ret(m, block)
        ELSE IF prev_alloc /\ ~next_alloc THEN
            With(SetSize(m, block, Add31(Size(m, block), Size(m, next_header))),
                 LAMBDA m1 :
                    IF ~InHeap(top, get_footer(m1, block)) THEN Bad(m)
                    ELSE With(Unlink(SetSize(m1, get_footer(m1, block), Size(m1, block)),
                                     top, next_header),
                              LAMBDA u : IF u.ok THEN Ret(u.m, block) ELSE Bad(m)))
        ELSE IF ~Known(m, prev_block) \/ ~InHeap(top, prev_block) THEN Bad(m)
        ELSE IF next_alloc THEN
            With(SetSize(m, prev_block, Add31(Size(m, prev_block), Size(m, block))),
                 LAMBDA m1 :
                    IF ~InHeap(top, get_footer(m1, prev_block)) THEN Bad(m)
                    ELSE With(Unlink(SetSize(m1, get_footer(m1, prev_block),
                                             Size(m1, prev_block)), top, block),
                              LAMBDA u : IF u.ok THEN Ret(u.m, prev_block) ELSE Bad(m)))
        ELSE
            With(SetSize(m, prev_block,
                         Add31(Size(m, prev_block),
                               Add31(Size(m, block), Size(m, next_header)))),
                 LAMBDA m1 :
                    IF ~InHeap(top, get_footer(m1, prev_block)) THEN Bad(m)
                    ELSE With(Unlink(SetSize(m1, get_footer(m1, prev_block),
                                             Size(m1, prev_block)), top, block),
                              LAMBDA u1 :
                                 IF ~u1.ok THEN Bad(m)
                                 ELSE With(Unlink(u1.m, top, next_header),
                                           LAMBDA u2 : IF u2.ok THEN Ret(u2.m, prev_block)
                                                       ELSE Bad(m)))))

(* the unsigned test  x - OVERHEAD <= 100  on a block size *)
SmallSize(sz) == sz >= OVERHEAD /\ sz - OVERHEAD <= SMALL_PAYLOAD

(* a variant of the test on asize that takes a requested payload of up to  *)
(* 100 bytes, an adjusted size of up to 120, for small                     *)
SmallRequestByPayload(asize) ==
    LeqInt(asize, OVERHEAD + SMALL_PAYLOAD + 7) /\ ~LtInt(asize, OVERHEAD)

(* the same test on the size_t asize *)
SmallRequest(asize) == LeqInt(asize, OVERHEAD + SMALL_PAYLOAD) /\ ~LtInt(asize, OVERHEAD)

(***************************************************************************)
(* place - mark asize bytes of the free block allocated, splitting when    *)
(* the rest can hold a free block.                                         *)
(***************************************************************************)
place(m, top, block, asize) ==
    IF ~Known(m, block) \/ ~InHeap(top, block) THEN Bad(m)
    ELSE IF Size(m, block) < asize \/ ~InHeap(top, block + Size(m, block) - HEADER_SIZE)
    THEN Bad(m)
    ELSE
    LET bsize == Size(m, block)
        split_size == bsize - asize
    IN
    IF split_size >= MIN_BLOCK_SIZE THEN
        IF SmallSize(asize) THEN
            LET new_block == block + asize
            IN  IF ~(IsPtr(m, block + PREV_OFF) /\ IsPtr(m, block + NEXT_OFF)) THEN Bad(m)
                ELSE LET p == m[block + PREV_OFF].p
                         t == m[block + NEXT_OFF].p
                     IN  IF ~(InHeap(top, p + NEXT_OFF) /\ InHeap(top, t + PREV_OFF)) THEN Bad(m)
                         ELSE Ret(WrAll(m, << <<block, Hdr(ALLOC, asize)>>,
                                              <<block + asize - HEADER_SIZE, Hdr(ALLOC, asize)>>,
                                              <<new_block, Hdr(FREE, split_size)>>,
                                              <<new_block + split_size - HEADER_SIZE,
                                                Hdr(FREE, split_size)>>,
                                              <<new_block + PREV_OFF, Ptr(p)>>,
                                              <<new_block + NEXT_OFF, Ptr(t)>>,
                                              <<p + NEXT_OFF, Ptr(new_block)>>,
                                              <<t + PREV_OFF, Ptr(new_block)>> >>), block)
        ELSE
            LET footer == block + bsize - HEADER_SIZE
                b == footer - asize + HEADER_SIZE
            IN  Ret(WrAll(m, << <<footer, Hdr(ALLOC, asize)>>,
                                <<b, Hdr(ALLOC, asize)>>,
                                <<block, Hdr(FREE, split_size)>>,
                                <<block + split_size - HEADER_SIZE, Hdr(FREE, split_size)>> >>), b)
    ELSE
        Unlink(SetAlloc(SetAlloc(m, block, ALLOC), block + bsize - HEADER_SIZE, ALLOC),
               top, block)

(***************************************************************************)
(* find_fit - first fit from the head for a small request, from the tail   *)
(* otherwise.  fuel bounds the walk: a walk longer than the number of      *)
(* known words revisits a block and never ends.                            *)
(***************************************************************************)
Fits(m, b, asize) == Alloc(m, b) = 0 /\ LeqInt(asize, Size(m, b))

RECURSIVE FitFrom(_, _, _, _, _)
FitFrom(m, b, asize, off, fuel) ==
    IF fuel = 0 \/ ~IsPtr(m, b + off) THEN Bad(m)
    ELSE IF m[b + off].p = NULL THEN Ret(m, NULL)
    ELSE IF ~Known(m, b) THEN Bad(m)
    ELSE IF Fits(m, b, asize) THEN Ret(m, b)
    ELSE FitFrom(m, m[b + off].p, asize, off, fuel - 1)

find_fit(m, pro, epi, asize) ==
    IF SmallRequest(asize) THEN
        IF IsPtr(m, pro + NEXT_OFF)
        THEN FitFrom(m, m[pro + NEXT_OFF].p, asize, NEXT_OFF, Cardinality(DOMAIN m) + 1)
        ELSE Bad(m)
    ELSE
        IF IsPtr(m, epi + PREV_OFF)
        THEN FitFrom(m, m[epi + PREV_OFF].p, asize, PREV_OFF, Cardinality(DOMAIN m) + 1)
        ELSE Bad(m)

(***************************************************************************)
(* mem_sbrk of the memory library: grows the heap by incr bytes and        *)
(* returns the old break, or fails.  incr is an int; the library refuses   *)
(* a negative increment, and grant says whether memory is left.            *)
(***************************************************************************)
SBRK_FAILED == -1

(* a mem_sbrk that moves the break one word further than asked            *)
mem_sbrk_one_word_more(top, incr, grant) ==
    IF grant /\ Fits31(incr)
    THEN [r |-> top, top |-> top + ToInt(incr) + HEADER_SIZE]
    ELSE [r |-> SBRK_FAILED, top |-> top]

mem_sbrk(top, incr, grant) ==
    IF grant /\ Fits31(incr)
    THEN [r |-> top, top |-> top + ToInt(incr)]
    ELSE [r |-> SBRK_FAILED, top |-> top]

(***************************************************************************)
(* extend_heap with the stores ahead of the test of mem_sbrk's result: the *)
(* old epilogue is already rewritten as a free header when the extension   *)
(* is refused.                                                             *)
(***************************************************************************)
extend_heap_store_first(m, top, pro, epi, words, grant) ==
    LET size == ToU32(Shl3(words))
        sb == mem_sbrk(top, size, grant)
        sz == IF Fits31(size) THEN ToInt(size) ELSE 0
        block == epi
        block_footer == block + sz - HEADER_SIZE
        new_epilogue == block_footer + HEADER_SIZE
    IN
    IF IsZero(size)
    THEN [m |-> m, ok |-> TRUE, r |-> NULL, top |-> top, epi |-> epi,
          ext |-> FALSE, incr |-> size]
    ELSE IF sb.r = SBRK_FAILED
    THEN [m |-> Wr(m, block, Hdr(FREE, sz)), ok |-> TRUE, r |-> NULL, top |-> top,
          epi |-> epi, ext |-> TRUE, incr |-> size]
    ELSE
    With(coalesce(WrAll(m, << <<block, Hdr(FREE, sz)>>,
                              <<block_footer, Hdr(FREE, sz)>>,
                              <<new_epilogue, Hdr(ALLOC, 0)>>,
                              <<block + NEXT_OFF, Ptr(new_epilogue)>>,
                              <<new_epilogue + PREV_OFF, Ptr(block)>>,
                              <<new_epilogue + NEXT_OFF, Ptr(NULL)>> >>),
                  sb.top, pro, block),
         LAMBDA c : [m |-> c.m, ok |-> c.ok, r |-> c.r, top |-> sb.top,
                     epi |-> new_epilogue, ext |-> TRUE, incr |-> size])

(***************************************************************************)
(* extend_heap - turn the old epilogue into the header of a free block of  *)
(* the new bytes, write the new epilogue behind it and coalesce.           *)
(***************************************************************************)
extend_heap(m, top, pro, epi, words, grant) ==
    LET size == ToU32(Shl3(words))
        none == [m |-> m, ok |-> TRUE, r |-> NULL, top |-> top, epi |-> epi,
                 ext |-> FALSE, incr |-> size]
    IN
    IF IsZero(size) THEN none
    ELSE
    LET sb == mem_sbrk(top, size, grant)
    IN
    IF sb.r = SBRK_FAILED THEN [none EXCEPT !.ext = TRUE]
    ELSE
    LET sz == ToInt(size)
        block == sb.r - BLOCK_T_SIZE
        block_footer == block + sz - HEADER_SIZE
        new_epilogue == block_footer + HEADER_SIZE
    IN  With(coalesce(WrAll(m, << <<block, Hdr(FREE, sz)>>,
                                  <<block_footer, Hdr(FREE, sz)>>,
                                  <<new_epilogue, Hdr(ALLOC, 0)>>,
                                  <<block + NEXT_OFF, Ptr(new_epilogue)>>,
                                  <<new_epilogue + PREV_OFF, Ptr(block)>>,
                                  <<new_epilogue + NEXT_OFF, Ptr(NULL)>> >>),
                      sb.top, pro, block),
             LAMBDA c : [m |-> c.m, ok |-> c.ok, r |-> c.r, top |-> sb.top,
                         epi |-> new_epilogue, ext |-> TRUE, incr |-> size])

(***************************************************************************)
(* mm_malloc - adjusted size, first fit, else extend and place.            *)
(***************************************************************************)
AdjustedSize(size) ==
    LET a == ToU32(Shl3(Shr3(AddSmall(AddSmall(size, OVERHEAD), 7))))
    IN  IF LtInt(a, MIN_BLOCK_SIZE) THEN FromInt(MIN_BLOCK_SIZE) ELSE a

ExtendSize(asize) ==
    IF ~LeqInt(asize, CHUNKSIZE) THEN asize ELSE FromInt(GROWTH_FACTOR * CHUNKSIZE)

mm_malloc(m, top, pro, epi, size, grant) ==
    LET asize == AdjustedSize(size)
        res == [m |-> m, ok |-> TRUE, r |-> NULL, top |-> top, epi |-> epi,
                fit |-> NULL, ext |-> FALSE, incr |-> FromInt(0), asize |-> asize]
    IN
    IF IsZero(size) THEN [res EXCEPT !.asize = FromInt(0)]
    ELSE
    With(find_fit(m, pro, epi, asize), LAMBDA f :
        IF ~f.ok THEN [res EXCEPT !.ok = FALSE]
        ELSE IF f.r # NULL THEN
            With(place(m, top, f.r, ToInt(asize)), LAMBDA b :
                [res EXCEPT !.m = b.m, !.ok = b.ok, !.fit = f.r,
                            !.r = IF b.ok THEN b.r + HEADER_SIZE ELSE NULL])
        ELSE
        With(extend_heap(m, top, pro, epi, Shr3(ToU32(ExtendSize(asize))), grant),
             LAMBDA e :
                LET r1 == [res EXCEPT !.m = e.m, !.ext = e.ext, !.incr = e.incr,
                                      !.top = e.top, !.epi = e.epi]
                IN  IF ~e.ok THEN [r1 EXCEPT !.ok = FALSE]
                    ELSE IF e.r = NULL THEN r1
                    ELSE With(place(e.m, e.top, e.r, ToInt(asize)), LAMBDA b :
                            [r1 EXCEPT !.m = b.m, !.ok = b.ok,
                                       !.r = IF b.ok THEN b.r + HEADER_SIZE ELSE NULL])))

(***************************************************************************)
(* mm_free - mark the block free, link it at the head (small) or the tail  *)
(* (large) of the free list, coalesce.                                     *)
(***************************************************************************)
mm_free(m, top, pro, epi, payload) ==
    LET block == payload - HEADER_SIZE
    IN
    IF ~Known(m, block) \/ ~InHeap(top, get_footer(m, block)) THEN Bad(m)
    ELSE
    With(SetAlloc(SetAlloc(m, block, FREE), get_footer(m, block), FREE), LAMBDA m1 :
        LET atHead == SmallSize(Size(m, block))
            anchor == IF atHead THEN pro + NEXT_OFF ELSE epi + PREV_OFF
        IN
        IF ~IsPtr(m1, anchor) THEN Bad(m)
        ELSE
        LET n == m1[anchor].p
            back == IF atHead THEN n + PREV_OFF ELSE n + NEXT_OFF
        IN
        IF ~InHeap(top, back) THEN Bad(m)
        ELSE
        coalesce(IF atHead
                 THEN WrAll(m1, << <<pro + NEXT_OFF, Ptr(block)>>,
                                   <<block + PREV_OFF, Ptr(pro)>>,
                                   <<block + NEXT_OFF, Ptr(n)>>,
                                   <<n + PREV_OFF, Ptr(block)>> >>)
                 ELSE WrAll(m1, << <<epi + PREV_OFF, Ptr(block)>>,
                                   <<block + NEXT_OFF, Ptr(epi)>>,
                                   <<block + PREV_OFF, Ptr(n)>>,
                                   <<n + NEXT_OFF, Ptr(block)>> >>),
                 top, pro, block))

(* an mm_init that takes only one of the two sentinels off the chunk       *)
mm_init_one_sentinel(m, top, grant) ==
    LET sb == mem_sbrk(top, FromInt(CHUNKSIZE), grant)
    IN
    IF sb.r = SBRK_FAILED
    THEN [m |-> m, r |-> -1, top |-> top, pro |-> SBRK_FAILED, epi |-> NULL]
    ELSE
    LET pro == sb.r
        init_block == pro + BLOCK_T_SIZE
        isize == CHUNKSIZE - OVERHEAD - 8
        epilogue == init_block + isize
    IN  [m |-> WrAll(m, << <<pro, Hdr(ALLOC, BLOCK_T_SIZE)>>,
                           <<init_block, Hdr(FREE, isize)>>,
                           <<init_block + isize - HEADER_SIZE, Hdr(FREE, isize)>>,
                           <<epilogue, Hdr(ALLOC, 0)>>,
                           <<pro + PREV_OFF, Ptr(NULL)>>,
                           <<pro + NEXT_OFF, Ptr(init_block)>>,
                           <<init_block + NEXT_OFF, Ptr(epilogue)>>,
                           <<init_block + PREV_OFF, Ptr(pro)>>,
                           <<epilogue + PREV_OFF, Ptr(init_block)>>,
                           <<epilogue + NEXT_OFF, Ptr(NULL)>> >>),
         r |-> 0, top |-> sb.top, pro |-> pro, epi |-> epilogue]

(* an mm_init whose prologue is padded by one more word                    *)
mm_init_padded_prologue(m, top, grant) ==
    LET sb == mem_sbrk(top, FromInt(CHUNKSIZE), grant)
    IN
    IF sb.r = SBRK_FAILED
    THEN [m |-> m, r |-> -1, top |-> top, pro |-> SBRK_FAILED, epi |-> NULL]
    ELSE
    LET pro == sb.r
        psize == BLOCK_T_SIZE + HEADER_SIZE
        init_block == pro + psize
        isize == CHUNKSIZE - psize - BLOCK_T_SIZE
        epilogue == init_block + isize
    IN  [m |-> WrAll(m, << <<pro, Hdr(ALLOC, psize)>>,
                           <<init_block, Hdr(FREE, isize)>>,
                           <<init_block + isize - HEADER_SIZE, Hdr(FREE, isize)>>,
                           <<epilogue, Hdr(ALLOC, 0)>>,
                           <<pro + PREV_OFF, Ptr(NULL)>>,
                           <<pro + NEXT_OFF, Ptr(init_block)>>,
                           <<init_block + NEXT_OFF, Ptr(epilogue)>>,
                           <<init_block + PREV_OFF, Ptr(pro)>>,
                           <<epilogue + PREV_OFF, Ptr(init_block)>>,
                           <<epilogue + NEXT_OFF, Ptr(NULL)>> >>),
         r |-> 0, top |-> sb.top, pro |-> pro, epi |-> epilogue]

(***************************************************************************)
(* mm_init - prologue, one free block, epilogue.                           *)
(***************************************************************************)
mm_init(m, top, grant) ==
    LET sb == mem_sbrk(top, FromInt(CHUNKSIZE), grant)
    IN
    IF sb.r = SBRK_FAILED
    THEN [m |-> m, r |-> -1, top |-> top, pro |-> SBRK_FAILED, epi |-> NULL]
    ELSE
    LET pro == sb.r
        init_block == pro + BLOCK_T_SIZE
        isize == CHUNKSIZE - OVERHEAD - 32
        epilogue == init_block + isize
    IN  [m |-> WrAll(m, << <<pro, Hdr(ALLOC, BLOCK_T_SIZE)>>,
                           <<init_block, Hdr(FREE, isize)>>,
                           <<init_block + isize - HEADER_SIZE, Hdr(FREE, isize)>>,
                           <<epilogue, Hdr(ALLOC, 0)>>,
                           <<pro + PREV_OFF, Ptr(NULL)>>,
                           <<pro + NEXT_OFF, Ptr(init_block)>>,
                           <<init_block + NEXT_OFF, Ptr(epilogue)>>,
                           <<init_block + PREV_OFF, Ptr(pro)>>,
                           <<epilogue + PREV_OFF, Ptr(init_block)>>,
                           <<epilogue + NEXT_OFF, Ptr(NULL)>> >>),
         r |-> 0, top |-> sb.top, pro |-> pro, epi |-> epilogue]

(***************************************************************************)
(* memcpy over whole words; a word only partly overwritten, or copied      *)
(* from undetermined bytes, is undetermined afterwards.  Overlapping       *)
(* ranges and ranges leaving the heap are undefined.                       *)
(***************************************************************************)
memcpy(m, top, dst, src, len) ==
    IF len = 0 THEN Ret(m, dst)
    ELSE IF ~(src >= HeapBase /\ src + len <= top /\ dst >= HeapBase /\ dst + len <= top)
            \/ (src < dst + len /\ dst < src + len)
    THEN Bad(m)
    ELSE
    LET touched == {a \in DOMAIN m : dst <= a /\ a < dst + len}
        copied == {a \in DOMAIN m : src <= a /\ a + 8 <= src + len}
        dom == ((DOMAIN m) \ touched) \cup {a - src + dst : a \in copied}
    IN  Ret([x \in dom |-> IF dst <= x /\ x < dst + len THEN m[x - dst + src] ELSE m[x]],
            dst)

(***************************************************************************)
(* The leading bytes of the copy that hold the client's bytes when         *)
(* mm_realloc returns: up to the first word of the source the allocator    *)
(* had written to before the copy (mc is the memory the copy read), or of  *)
(* the destination that mm_free stored to after it (from ma to mb).        *)
(***************************************************************************)
Min(S) == CHOOSE x \in S : \A y \in S : x <= y

Differs(ma, mb, x) ==
    \/ Known(ma, x) # Known(mb, x)
    \/ Known(ma, x) /\ Known(mb, x) /\ ma[x] # mb[x]

Kept(mc, ma, mb, dst, src, len) ==
    LET lost == {IF x - dst > 0 THEN x - dst ELSE 0 :
                    x \in {y \in (DOMAIN ma) \cup (DOMAIN mb) :
                              dst < y + 8 /\ y < dst + len /\ Differs(ma, mb, y)}}
                \cup {IF x - src > 0 THEN x - src ELSE 0 :
                         x \in {y \in DOMAIN mc : src < y + 8 /\ y < src + len}}
    IN  IF lost = {} THEN len ELSE Min(lost)

(***************************************************************************)
(* mm_realloc - allocate, copy min(old block size, size) bytes, free.      *)
(* exit: malloc failed and the process was ended; over: the copy was       *)
(* longer than the payload area of the new block.                          *)
(***************************************************************************)
mm_realloc(m, top, pro, epi, ptr, size, grant) ==
    With(mm_malloc(m, top, pro, epi, size, grant), LAMBDA a :
        LET res == a @@ [exit |-> FALSE, copy |-> 0, over |-> FALSE, kept |-> 0]
        IN
        IF ~a.ok THEN res
        ELSE IF a.r = NULL THEN [res EXCEPT !.exit = TRUE]
        ELSE IF ~Known(a.m, ptr - HEADER_SIZE) THEN [res EXCEPT !.ok = FALSE]
        ELSE
        LET bsize == Size(a.m, ptr - HEADER_SIZE)
            copySize == IF LtInt(size, bsize) THEN ToInt(size) ELSE bsize
            over == copySize > Size(a.m, a.r - HEADER_SIZE) - OVERHEAD
        IN
        With(memcpy(a.m, a.top, a.r, ptr, copySize), LAMBDA c :
            IF ~c.ok THEN [res EXCEPT !.ok = FALSE, !.copy = copySize, !.over = over]
            ELSE With(mm_free(c.m, a.top, pro, a.epi, ptr), LAMBDA f :
                     [res EXCEPT !.m = f.m, !.ok = f.ok, !.copy = copySize,
                                 !.over = over,
                                 !.kept = Kept(a.m, c.m, f.m, a.r, ptr, copySize)])))

(***************************************************************************)
(* The client.  Request sizes cover a small and a large request, a request *)
(* for the whole initial free block, one above CHUNKSIZE, and sizes whose  *)
(* sum with the overhead leaves 31 and 32 bits.                            *)
(***************************************************************************)
TWO_31 == <<0, HALF_LIMB, 0, 0>>
TWO_32_MINUS_16 == <<LIMB - 16, LIMB - 1, 0, 0>>

Requests ==
    { FromInt(0), FromInt(16), FromInt(100), FromInt(65472),
      FromInt(70000), TWO_31, TWO_32_MINUS_16 }

Grants == IF nsbrk < MaxSbrk THEN BOOLEAN ELSE {FALSE}

NoCall == [op |-> "none", ptr |-> NULL, n |-> FromInt(0), ret |-> NULL, fit |-> NULL,
           ext |-> FALSE, incr |-> FromInt(0), asize |-> FromInt(0), copy |-> 0,
           fresh |-> FALSE, held |-> FromInt(0), kept |-> 0]

EmptyMem == [x \in {} |-> Ptr(NULL)]

(* the words of the payload area of the block whose payload starts at p *)
PayloadWords(m, p) ==
    IF Known(m, p - HEADER_SIZE)
    THEN {a \in DOMAIN m : p <= a /\ a < p + Size(m, p - HEADER_SIZE) - OVERHEAD}
    ELSE {}

(***************************************************************************)
(* The free list as the code walks it: the blocks met from `from` along    *)
(* the links at offset off, up to the block whose link is NULL.  ok is     *)
(* FALSE when a link is not a determined pointer or the walk never ends.   *)
(***************************************************************************)
RECURSIVE Walk(_, _, _, _, _)
Walk(m, b, off, fuel, acc) ==
    IF fuel = 0 \/ ~IsPtr(m, b + off) THEN [seq |-> acc, end |-> b, ok |-> FALSE]
    ELSE IF m[b + off].p = NULL THEN [seq |-> acc, end |-> b, ok |-> TRUE]
    ELSE Walk(m, m[b + off].p, off, fuel - 1, Append(acc, b))

Forward(m, pro) ==
    IF IsPtr(m, pro + NEXT_OFF)
    THEN Walk(m, m[pro + NEXT_OFF].p, NEXT_OFF, Cardinality(DOMAIN m) + 1, <<>>)
    ELSE [seq |-> <<>>, end |-> pro, ok |-> FALSE]

Backward(m, epi) ==
    IF IsPtr(m, epi + PREV_OFF)
    THEN Walk(m, m[epi + PREV_OFF].p, PREV_OFF, Cardinality(DOMAIN m) + 1, <<>>)
    ELSE [seq |-> <<>>, end |-> epi, ok |-> FALSE]

Range(s) == {s[i] : i \in DOMAIN s}

(***************************************************************************)
(* Boundary tags and links that coalesce leaves behind inside a merged     *)
(* free block are never read again while the block is free; like the       *)
(* payload bytes around them they are kept as undetermined.  Only blocks   *)
(* whose header and footer agree are treated so.                           *)
(***************************************************************************)
Interior(m, b) ==
    IF Known(m, b) /\ m[b].k = "hdr" /\ m[b].a = FREE /\ m[b].s >= MIN_BLOCK_SIZE
       /\ Known(m, b + m[b].s - HEADER_SIZE) /\ m[b + m[b].s - HEADER_SIZE] = m[b]
    THEN {a \in DOMAIN m : b + BLOCK_T_SIZE <= a /\ a < b + m[b].s - HEADER_SIZE}
    ELSE {}

DropStale(m, pro) ==
    Forget(m, UNION {Interior(m, b) : b \in Range(Forward(m, pro).seq)})

Without(f, x) == [y \in (DOMAIN f) \ {x} |-> f[y]]

(* a heap exists: mm_init succeeded and no call ended the run *)
HasHeap == status \in {"ready", "overrun"}

Init ==
    /\ mem = EmptyMem
    /\ prologue = NULL
    /\ epilogue_global = NULL
    /\ brk = HeapBase
    /\ status = "new"
    /\ live = EmptyMem
    /\ nsbrk = 0
    /\ ncalls = 0
    /\ last = NoCall

Initialize ==
    /\ status = "new"
    /\ \E grant \in BOOLEAN :
        LET i == mm_init(mem, brk, grant)
        IN  /\ mem' = i.m
            /\ brk' = i.top
            /\ prologue' = i.pro
            /\ epilogue_global' = i.epi
            /\ status' = IF i.r = 0 THEN "ready" ELSE "new"
            /\ last' = [NoCall EXCEPT !.op = "init", !.ret = i.r]
    /\ UNCHANGED <<live, nsbrk, ncalls>>

(* last records the latest call: its arguments, what it returned and what  *)
(* it did (the block find_fit gave, whether mem_sbrk was called and for    *)
(* how many bytes, the adjusted size, the bytes copied and how many of     *)
(* them are still in place at the return).  For mm_free and mm_realloc it  *)
(* also keeps the size the pointer was requested with (held), for mm_free  *)
(* whether the pointer had just been returned by the preceding mm_malloc.  *)

(* A call with no defined result, and the exit(1) of mm_realloc, end the   *)
(* run: no heap is left to speak of.                                      *)
Gone(st, call) ==
    /\ status' = st
    /\ mem' = EmptyMem
    /\ live' = EmptyMem
    /\ last' = call
    /\ UNCHANGED <<prologue, epilogue_global, brk, nsbrk>>

Malloc ==
    /\ HasHeap
    /\ ncalls < MaxCalls
    /\ ncalls' = ncalls + 1
    /\ Cardinality(DOMAIN live) < MaxLive
    /\ \E n \in Requests, grant \in Grants :
        \E a \in {mm_malloc(mem, brk, prologue, epilogue_global, n, grant)} :
        LET call == [NoCall EXCEPT !.op = "malloc", !.n = n, !.ret = a.r, !.fit = a.fit,
                                  !.ext = a.ext, !.incr = a.incr, !.asize = a.asize]
        IN  IF ~a.ok THEN Gone("undefined", call)
            ELSE /\ mem' = IF a.r # NULL
                           THEN DropStale(Forget(a.m, PayloadWords(a.m, a.r)), prologue)
                           ELSE a.m
                 /\ brk' = a.top
                 /\ epilogue_global' = a.epi
                 /\ nsbrk' = IF a.top # brk THEN nsbrk + 1 ELSE nsbrk
                 /\ status' = status
                 /\ live' = IF a.r # NULL THEN (a.r :> n) @@ live ELSE live
                 /\ last' = call
                 /\ UNCHANGED prologue

Free ==
    /\ HasHeap
    /\ ncalls < MaxCalls
    /\ ncalls' = ncalls + 1
    /\ \E p \in DOMAIN live :
        \E f \in {mm_free(mem, brk, prologue, epilogue_global, p)} :
        LET call == [NoCall EXCEPT !.op = "free", !.ptr = p, !.held = live[p],
                                  !.fresh = (last.op = "malloc" /\ last.ret = p)]
        IN  IF ~f.ok THEN Gone("undefined", call)
            ELSE /\ mem' = DropStale(f.m, prologue)
                 /\ status' = status
                 /\ live' = Without(live, p)
                 /\ last' = call
                 /\ UNCHANGED <<prologue, epilogue_global, brk, nsbrk>>

(* mm_realloc trades one live pointer for another.  Once a copy was longer *)
(* than the payload area of the block it went to, status is "overrun":     *)
(* the heap that copy leaves behind is kept and the calls go on over it.   *)
Realloc ==
    /\ HasHeap
    /\ ncalls < MaxCalls
    /\ ncalls' = ncalls + 1
    /\ \E p \in DOMAIN live, n \in Requests, grant \in Grants :
        \E a \in {mm_realloc(mem, brk, prologue, epilogue_global, p, n, grant)} :
        LET call == [NoCall EXCEPT !.op = "realloc", !.ptr = p, !.n = n, !.ret = a.r,
                                  !.fit = a.fit, !.ext = a.ext, !.incr = a.incr,
                                  !.asize = a.asize, !.copy = a.copy,
                                  !.held = live[p], !.kept = a.kept]
        IN  IF ~a.ok THEN Gone("undefined", call)
            ELSE IF a.exit THEN Gone("exit", call)
            ELSE /\ mem' = DropStale(Forget(a.m, PayloadWords(a.m, a.r)), prologue)
                 /\ brk' = a.top
                 /\ epilogue_global' = a.epi
                 /\ nsbrk' = IF a.top # brk THEN nsbrk + 1 ELSE nsbrk
                 /\ status' = IF a.over THEN "overrun" ELSE status
                 /\ live' = (a.r :> n) @@ Without(live, p)
                 /\ last' = call
                 /\ UNCHANGED prologue

(***************************************************************************)
(* checkblock - the error lines it prints for one block (n).  ok is FALSE  *)
(* when the footer it reads is outside the heap or of undetermined         *)
(* content.  The footer is read for the prologue too: the comparison comes *)
(* before the test block != prologue.                                      *)
(***************************************************************************)
checkblock(m, top, pro, block) ==
    LET footer == get_footer(m, block)
    IN  IF ~(InHeap(top, footer) /\ Known(m, footer)) THEN [ok |-> FALSE, n |-> 0]
        ELSE [ok |-> TRUE,
              n  |-> (IF (block + HEADER_SIZE) % 8 # 0 THEN 1 ELSE 0)
                     + (IF Size(m, block) # Size(m, footer) /\ block # pro
                        THEN 1 ELSE 0)]

(* the loop of mm_checkheap from block on, errs error lines printed so far *)
RECURSIVE CheckFrom(_, _, _, _, _)
CheckFrom(m, top, pro, block, errs) ==
    IF ~(InHeap(top, block) /\ Known(m, block)) THEN [ok |-> FALSE, errors |-> errs]
    ELSE IF Size(m, block) = 0
    THEN [ok |-> TRUE,
          errors |-> errs + (IF Alloc(m, block) # ALLOC THEN 1 ELSE 0)]
    ELSE With(checkblock(m, top, pro, block), LAMBDA c :
             IF ~c.ok THEN [ok |-> FALSE, errors |-> errs]
             ELSE CheckFrom(m, top, pro, block + Size(m, block), errs + c.n))

(***************************************************************************)
(* mm_checkheap - errors is the number of error lines printed ("Bad        *)
(* prologue header", the two lines of checkblock, "Bad epilogue header").  *)
(* With verbose set it also prints one line per block, which reads the     *)
(* words checkblock reads and the two link words; those lines are not      *)
(* error lines.                                                            *)
(***************************************************************************)
mm_checkheap(m, top, pro, verbose) ==
    IF ~Known(m, pro) THEN [ok |-> FALSE, errors |-> 0]
    ELSE With(checkblock(m, top, pro, pro), LAMBDA c :
             IF ~c.ok THEN [ok |-> FALSE, errors |-> 0]
             ELSE CheckFrom(m, top, pro, pro + Size(m, pro),
                            (IF Size(m, pro) # BLOCK_T_SIZE \/ Alloc(m, pro) # ALLOC
                             THEN 1 ELSE 0) + c.n))

(* mm_checkheap changes nothing of the heap; last.ret is the number of     *)
(* error lines it printed.                                                 *)
CheckHeap ==
    /\ HasHeap
    /\ \E verbose \in {0, 1} :
        \E c \in {mm_checkheap(mem, brk, prologue, verbose)} :
        LET call == [NoCall EXCEPT !.op = "check", !.ret = c.errors]
        IN  IF ~c.ok THEN Gone("undefined", call) /\ UNCHANGED ncalls
            ELSE /\ last' = call
                 /\ UNCHANGED <<mem, prologue, epilogue_global, brk, status,
                                live, nsbrk, ncalls>>

Next == Initialize \/ Malloc \/ Free \/ Realloc \/ CheckHeap

Spec == Init /\ [][Next]_vars

(***************************************************************************)
(* The heap as mm_checkheap walks it: from the block behind the prologue,  *)
(* each header's block_size leads to the next block, up to a header of     *)
(* size 0.  ok is FALSE when the walk meets a header of undetermined       *)
(* content or leaves the heap; the block it stopped at is end.             *)
(***************************************************************************)
RECURSIVE HeapWalk(_, _, _, _)
HeapWalk(m, top, b, acc) ==
    IF b < HeapBase \/ b + HEADER_SIZE > top \/ ~Known(m, b)
    THEN [seq |-> acc, end |-> b, ok |-> FALSE]
    ELSE IF Size(m, b) = 0 THEN [seq |-> acc, end |-> b, ok |-> TRUE]
    ELSE IF Size(m, b) > top - b THEN [seq |-> Append(acc, b), end |-> b, ok |-> FALSE]
    ELSE HeapWalk(m, top, b + Size(m, b), Append(acc, b))

Blocks(m, top, pro) ==
    IF Known(m, pro) /\ Size(m, pro) > 0 /\ Size(m, pro) <= top - pro
    THEN HeapWalk(m, top, pro + Size(m, pro), <<>>)
    ELSE [seq |-> <<>>, end |-> pro, ok |-> FALSE]

(* the boundary tags of a block: the footer lies in the heap, is           *)
(* determined and repeats the header, size and allocated bit               *)
TagsAgree(m, top, block) ==
    /\ Size(m, block) >= HEADER_SIZE
    /\ Size(m, block) <= top - block
    /\ Known(m, get_footer(m, block))
    /\ Size(m, get_footer(m, block)) = Size(m, block)
    /\ Alloc(m, get_footer(m, block)) = Alloc(m, block)

(* check_if_block_is_freed: the boundary tags on both sides of a free      *)
(* block are determined and say allocated; the first block of the heap has *)
(* no tag before it                                                        *)
Coalesced(m, top, pro, b) ==
    /\ Known(m, b)
    /\ (b - BLOCK_T_SIZE # pro) =>
           /\ Known(m, b - HEADER_SIZE)
           /\ Alloc(m, b - HEADER_SIZE) = ALLOC
    /\ Size(m, b) <= top - b - HEADER_SIZE
    /\ Known(m, b + Size(m, b))
    /\ Alloc(m, b + Size(m, b)) = ALLOC

(* the link field at b + off is a determined pointer *)
Link(m, b, off) == IF IsPtr(m, b + off) THEN m[b + off].p ELSE SBRK_FAILED

Reverse(s) == [i \in DOMAIN s |-> s[Len(s) + 1 - i]]

(* the words holding boundary tags and list links *)
MetaWords(m, top, pro, epi) ==
    LET w == Blocks(m, top, pro)
        f == Forward(m, pro)
    IN  {pro, epi} \cup Range(w.seq)
        \cup {get_footer(m, b) : b \in Range(w.seq)}
        \cup UNION {{b + NEXT_OFF, b + PREV_OFF} : b \in Range(f.seq) \cup {pro, epi}}

(* the n bytes at p lie inside the heap *)
InsideHeap(top, p, n) == Fits31(n) /\ p >= HeapBase /\ ToInt(n) <= top - p

(* the adjusted size of section 4.4.1 as a size_t, before it is stored     *)
(* into the uint32_t asize                                                 *)
RawAdjustedSize(size) ==
    LET a == Shl3(Shr3(AddSmall(AddSmall(size, OVERHEAD), 7)))
    IN  IF LtInt(a, MIN_BLOCK_SIZE) THEN FromInt(MIN_BLOCK_SIZE) ELSE a

(* some block of the free list is free and has room for asize bytes *)
ListHasFit(m, pro, asize) ==
    \E b \in Range(Forward(m, pro).seq) : Known(m, b) /\ Fits(m, b, asize)

(* this step is a call of mm_malloc that returned *)
MallocReturned ==
    ncalls' # ncalls /\ last'.op = "malloc" /\ status' \in {"ready", "overrun"}

(***************************************************************************)
(* C1: the payload ranges [p, p+n) of the live allocations are pairwise    *)
(* disjoint, lie inside the heap, and contain no byte of a header, a       *)
(* footer or a link field of a free block or sentinel.                     *)
(***************************************************************************)
PayloadsOwnedByClients ==
    HasHeap =>
        /\ \A p \in DOMAIN live :
            /\ InsideHeap(brk, p, live[p])
            /\ \A a \in MetaWords(mem, brk, prologue, epilogue_global) :
                   a + HEADER_SIZE <= p \/ p + ToInt(live[p]) <= a
        /\ \A p, q \in DOMAIN live :
               (p # q /\ InsideHeap(brk, p, live[p]) /\ InsideHeap(brk, q, live[q]))
                   => (p + ToInt(live[p]) <= q \/ q + ToInt(live[q]) <= p)

(***************************************************************************)
(* C2: whenever mm_malloc(n) returns a non-null pointer, the block holding *)
(* it has a payload capacity block_size - 16 of at least n bytes.          *)
(***************************************************************************)
CapacityCoversRequest ==
    (HasHeap /\ last.op = "malloc" /\ last.ret # NULL) =>
        /\ Known(mem, last.ret - HEADER_SIZE)
        /\ LeqInt(last.n, Size(mem, last.ret - HEADER_SIZE) - OVERHEAD)

(***************************************************************************)
(* C3: every block start and every block_size met on the heap walk is a    *)
(* multiple of 8, and so is every pointer mm_malloc or mm_realloc returns. *)
(***************************************************************************)
EverythingAligned ==
    HasHeap =>
        LET w == Blocks(mem, brk, prologue)
        IN  /\ prologue % 8 = 0
            /\ \A b \in Range(w.seq) \cup {w.end} :
                   b % 8 = 0 /\ Known(mem, b) /\ Size(mem, b) % 8 = 0
            /\ last.op \in {"malloc", "realloc"} => last.ret % 8 = 0

(***************************************************************************)
(* C4: no two physically adjacent blocks are both free: every block that   *)
(* is on the free list or carries the free flag has an allocated block or  *)
(* a sentinel before and behind it.                                        *)
(***************************************************************************)
NoAdjacentFreeBlocks ==
    HasHeap =>
        LET w == Blocks(mem, brk, prologue)
            f == Forward(mem, prologue)
        IN  \A b \in Range(f.seq) \cup {x \in Range(w.seq) : Alloc(mem, x) = FREE} :
                Coalesced(mem, brk, prologue, b)

(***************************************************************************)
(* C5: the blocks on the free list between prologue and epilogue are       *)
(* exactly the heap blocks whose allocated flag is 0, each of them once.   *)
(***************************************************************************)
FreeListIsTheFreeBlocks ==
    HasHeap =>
        LET w == Blocks(mem, brk, prologue)
            f == Forward(mem, prologue)
        IN  /\ f.ok
            /\ f.end = epilogue_global
            /\ Cardinality(Range(f.seq)) = Len(f.seq)
            /\ Range(f.seq) = {b \in Range(w.seq) : Alloc(mem, b) = FREE}

(***************************************************************************)
(* C6: the free list is a well-formed doubly-linked list: prologue.prev    *)
(* and epilogue.next are null, b.prev.next = b and b.next.prev = b for     *)
(* every entry, and the backward walk from the epilogue meets the blocks   *)
(* of the forward walk from the prologue in reverse order.                 *)
(***************************************************************************)
FreeListWellFormed ==
    HasHeap =>
        LET f == Forward(mem, prologue)
            r == Backward(mem, epilogue_global)
        IN  /\ Link(mem, prologue, PREV_OFF) = NULL
            /\ Link(mem, epilogue_global, NEXT_OFF) = NULL
            /\ f.ok /\ f.end = epilogue_global
            /\ r.ok /\ r.end = prologue
            /\ r.seq = Reverse(f.seq)
            /\ \A b \in Range(f.seq) :
                   /\ Link(mem, Link(mem, b, PREV_OFF), NEXT_OFF) = b
                   /\ Link(mem, Link(mem, b, NEXT_OFF), PREV_OFF) = b

(***************************************************************************)
(* C7: every block between prologue and epilogue ends in a footer whose    *)
(* block_size and allocated flag equal those of its header.                *)
(***************************************************************************)
FootersRepeatHeaders ==
    HasHeap =>
        \A b \in Range(Blocks(mem, brk, prologue).seq) : TagsAgree(mem, brk, b)

(***************************************************************************)
(* C8: the blocks tile the heap: adding block sizes from the prologue on   *)
(* reaches the epilogue anchor, the prologue has its record size and every *)
(* block on the way has at least MIN_BLOCK_SIZE bytes.                     *)
(***************************************************************************)
BlocksTileHeap ==
    HasHeap =>
        LET w == Blocks(mem, brk, prologue)
        IN  /\ Known(mem, prologue) /\ Size(mem, prologue) = BLOCK_T_SIZE
            /\ w.ok
            /\ w.end = epilogue_global
            /\ \A b \in Range(w.seq) : Size(mem, b) >= MIN_BLOCK_SIZE

ExtendsExactlyWhenNoFit ==
    [][MallocReturned =>
          (last'.ext <=>
               /\ ~IsZero(last'.n)
               /\ ~ListHasFit(mem, prologue, RawAdjustedSize(last'.n)))
      ]_vars

(* the larger of a size_t and a non-negative int *)
MaxSize(asize, k) == IF LtInt(asize, k) THEN FromInt(k) ELSE asize

(***************************************************************************)
(* C11: when mm_malloc finds no fit it asks mem_sbrk for                   *)
(* max(asize, 6 * CHUNKSIZE) bytes, so never for fewer than 6 * CHUNKSIZE. *)
(***************************************************************************)
ExtendsByLargerOfTwo ==
    (HasHeap /\ last.op = "malloc" /\ last.ext) =>
        /\ last.incr = MaxSize(last.asize, GROWTH_FACTOR * CHUNKSIZE)
        /\ ~LtInt(last.incr, GROWTH_FACTOR * CHUNKSIZE)

(***************************************************************************)
(* C12: when mm_malloc finds no fit for a request whose adjusted size is   *)
(* larger than CHUNKSIZE, it asks mem_sbrk for exactly that many bytes and *)
(* a granted extension moves the break by exactly that many bytes.         *)
(***************************************************************************)
LargeRequestExtendsExactly ==
    [][(MallocReturned /\ last'.ext /\ ~LeqInt(RawAdjustedSize(last'.n), CHUNKSIZE)) =>
          /\ last'.incr = RawAdjustedSize(last'.n)
          /\ brk' # brk => brk' - brk = ToInt(last'.incr)
      ]_vars

(***************************************************************************)
(* C13: when no allocation is live, the heap between prologue and epilogue *)
(* is one free block and the free list is prologue -> that block ->        *)
(* epilogue.                                                               *)
(***************************************************************************)
AllFreedIsOneBlock ==
    (HasHeap /\ DOMAIN live = {}) =>
        LET b == prologue + BLOCK_T_SIZE
        IN  /\ Known(mem, b)
            /\ Alloc(mem, b) = FREE
            /\ b + Size(mem, b) = epilogue_global
            /\ TagsAgree(mem, brk, b)
            /\ Forward(mem, prologue) = [seq |-> <<b>>, end |-> epilogue_global, ok |-> TRUE]
            /\ Backward(mem, epilogue_global) = [seq |-> <<b>>, end |-> prologue, ok |-> TRUE]

(***************************************************************************)
(* C14: after p = mm_malloc(n) and mm_free(p), the next mm_malloc(n)       *)
(* returns a non-null pointer into a block of at least the adjusted size   *)
(* of n and does not extend the heap: the break stays where the first      *)
(* mm_malloc left it, however often the pair of calls is repeated.         *)
(***************************************************************************)
FreedBlockServesSameRequest ==
    [][(MallocReturned /\ last.op = "free" /\ last.fresh /\ last'.n = last.held) =>
          /\ last'.ret # NULL
          /\ ~last'.ext
          /\ brk' = brk
          /\ Known(mem', last'.ret - HEADER_SIZE)
          /\ LeqInt(RawAdjustedSize(last'.n), Size(mem', last'.ret - HEADER_SIZE))
      ]_vars

(* the smaller of two size_t values, the second at most 2^31 - 1 *)
MinSize(x, y) == IF LeqInt(x, ToInt(y)) THEN x ELSE y

(***************************************************************************)
(* C15: if p came from mm_malloc(n) and holds n bytes of the client,       *)
(* mm_realloc(p, m) returns q whose first min(n, m) bytes are those bytes. *)
(***************************************************************************)
ReallocKeepsContents ==
    (HasHeap /\ last.op = "realloc" /\ Fits31(last.held)) =>
        ToInt(MinSize(last.n, last.held)) <= last.kept

(* a step that is a call of mm_realloc, returning or not *)
ReallocCalled == ncalls' # ncalls /\ last'.op = "realloc"

(***************************************************************************)
(* C16: mm_realloc(ptr, size) ends the process exactly when mem_sbrk       *)
(* refused to grow the heap; in every other case, whatever the size, it    *)
(* returns a non-null payload pointer and the old block is free.           *)
(***************************************************************************)
ReallocAbortsOnlyOutOfMemory ==
    [][ReallocCalled =>
          /\ (status' = "exit") <=> (last'.ext /\ brk' = brk /\ last'.ret = NULL)
          /\ (status' # "exit") =>
                /\ status' \in {"ready", "overrun"}
                /\ last'.ret # NULL
                /\ last'.ret \in DOMAIN live'
                /\ last'.ptr \notin DOMAIN live' \ {last'.ret}
      ]_vars

(* some block of the heap walk, the prologue apart, whose footer is         *)
(* determined and differs from the header in size or in the allocated bit   *)
TagMismatch(m, top, pro) ==
    \E b \in Range(Blocks(m, top, pro).seq) :
        /\ InHeap(top, get_footer(m, b)) /\ Known(m, get_footer(m, b))
        /\ \/ Size(m, get_footer(m, b)) # Size(m, b)
           \/ Alloc(m, get_footer(m, b)) # Alloc(m, b)

Misaligned(m, top, pro) ==
    \E b \in Range(Blocks(m, top, pro).seq) : (b + HEADER_SIZE) % 8 # 0

(* some free block of the heap walk with determined links b.prev and        *)
(* b.next, where b.prev.next or b.next.prev is determined and is not b      *)
BrokenLink(m, top, pro) ==
    \E b \in Range(Blocks(m, top, pro).seq) :
        /\ Alloc(m, b) = FREE
        /\ IsPtr(m, b + NEXT_OFF) /\ IsPtr(m, b + PREV_OFF)
        /\ \/ IsPtr(m, Link(m, b, PREV_OFF) + NEXT_OFF)
              /\ Link(m, Link(m, b, PREV_OFF), NEXT_OFF) # b
           \/ IsPtr(m, Link(m, b, NEXT_OFF) + PREV_OFF)
              /\ Link(m, Link(m, b, NEXT_OFF), PREV_OFF) # b

Corrupted(m, top, pro) ==
    TagMismatch(m, top, pro) \/ Misaligned(m, top, pro) \/ BrokenLink(m, top, pro)

(***************************************************************************)
(* C17: mm_checkheap prints at least one error line whenever some block    *)
(* other than the prologue has a footer that differs from its header in    *)
(* size or allocated bit, some payload is not 8-aligned, or some free      *)
(* block b has b.prev.next # b or b.next.prev # b.                         *)
(***************************************************************************)
CheckHeapReportsCorruption ==
    [][(last'.op = "check" /\ Corrupted(mem, brk, prologue)) =>
          (status' # "undefined" /\ last'.ret >= 1)]_vars

(* the free blocks the heap walk meets *)
FreeBlocks(m, top, pro) ==
    {b \in Range(Blocks(m, top, pro).seq) : Alloc(m, b) = FREE}

(***************************************************************************)
(* C18: on every heap the public calls can produce, each call comes to an  *)
(* end: the list walks of find_fit reach the sentinel at the other end     *)
(* after at most as many steps as there are free blocks, and the walk of   *)
(* mm_checkheap reaches the epilogue header of size 0, meeting every       *)
(* block once.                                                             *)
(***************************************************************************)
EveryWalkEnds ==
    /\ status # "undefined"
    /\ HasHeap =>
          LET f == Forward(mem, prologue)
              b == Backward(mem, epilogue_global)
              w == Blocks(mem, brk, prologue)
              nfree == Cardinality(FreeBlocks(mem, brk, prologue))
          IN  /\ w.ok /\ w.end = epilogue_global
              /\ mm_checkheap(mem, brk, prologue, 0).ok
              /\ f.ok /\ f.end = epilogue_global /\ Len(f.seq) <= nfree
              /\ b.ok /\ b.end = prologue /\ Len(b.seq) <= nfree

(* a step that is a call of mm_malloc or mm_realloc with a size other than *)
(* 0: find_fit is called with the adjusted size, on the heap as it is      *)
(* before the step                                                         *)
FindFitCalled ==
    ncalls' # ncalls /\ last'.op \in {"malloc", "realloc"} /\ ~IsZero(last'.n)

(* the first block of the sequence with room for asize bytes, or NULL *)
FirstWithRoom(m, seq, asize) ==
    LET fits == {i \in DOMAIN seq : Known(m, seq[i]) /\ LeqInt(asize, Size(m, seq[i]))}
    IN  IF fits = {} THEN NULL ELSE seq[Min(fits)]

(***************************************************************************)
(* C19: find_fit(asize) returns, for a small request, the first block of   *)
(* the free list in head-to-tail order whose size is at least asize, for a *)
(* large request the first such block in tail-to-head order; it returns    *)
(* NULL exactly when no block of the list has size >= asize, and never the *)
(* prologue or the epilogue.                                               *)
(***************************************************************************)
FindFitIsFirstFit ==
    [][FindFitCalled =>
          LET asize == last'.asize
              order == IF SmallRequest(asize)
                       THEN Forward(mem, prologue)
                       ELSE Backward(mem, epilogue_global)
              r == find_fit(mem, prologue, epilogue_global, asize)
          IN  /\ order.ok /\ r.ok
              /\ r.r = FirstWithRoom(mem, order.seq, asize)
              /\ (r.r = NULL) <=>
                    ~\E b \in Range(Forward(mem, prologue).seq) :
                         Known(mem, b) /\ LeqInt(asize, Size(mem, b))
              /\ r.r \notin {prologue, epilogue_global}
              /\ last'.fit = r.r
      ]_vars

(* a step that is a call of mm_malloc with a size other than 0 *)
MallocCalled == ncalls' # ncalls /\ last'.op = "malloc" /\ ~IsZero(last'.n)

(* every header the list walk meets is determined *)
WalkDetermined(m, order) == order.ok /\ \A b \in Range(order.seq) : Known(m, b)

(* the first free block of the sequence with room for asize bytes, or NULL *)
FirstFreeWithRoom(m, seq, asize) ==
    LET fits == {i \in DOMAIN seq : Known(m, seq[i]) /\ Fits(m, seq[i], asize)}
    IN  IF fits = {} THEN NULL ELSE seq[Min(fits)]

(***************************************************************************)
(* What a call of mm_malloc shows of the class of its request.  Small:     *)
(* the block taken is the first fit of the head-to-tail walk, and when it  *)
(* is split the payload returned is at its low end.  Large: the first fit  *)
(* of the tail-to-head walk, the payload in the high asize bytes.          *)
(***************************************************************************)
HandledAs(small) ==
    LET asize == last'.asize
        order == IF small THEN Forward(mem, prologue)
                          ELSE Backward(mem, epilogue_global)
        fit   == last'.fit
    IN  /\ WalkDetermined(mem, order) =>
              fit = FirstFreeWithRoom(mem, order.seq, asize)
        /\ (fit # NULL /\ status' # "undefined"
                /\ Size(mem, fit) - ToInt(asize) >= MIN_BLOCK_SIZE) =>
              last'.ret = IF small THEN fit + HEADER_SIZE
                          ELSE fit + Size(mem, fit) - ToInt(asize) + HEADER_SIZE

PlaceCalled == FindFitCalled /\ last'.fit # NULL /\ Known(mem, last'.fit)

(* the whole block was taken: allocated in header and footer at the size   *)
(* it had, its list neighbours p and t linked to each other, and returned  *)
TakenWhole(m, r, b) ==
    LET bsize == Size(m, b)
        p == Link(m, b, PREV_OFF)
        t == Link(m, b, NEXT_OFF)
    IN  /\ r.r = b
        /\ Known(r.m, b) /\ r.m[b] = Hdr(ALLOC, bsize)
        /\ Known(r.m, b + bsize - HEADER_SIZE)
        /\ r.m[b + bsize - HEADER_SIZE] = Hdr(ALLOC, bsize)
        /\ Link(r.m, p, NEXT_OFF) = t
        /\ Link(r.m, t, PREV_OFF) = p

Tagged(m, b, sz, a) ==
    /\ Known(m, b) /\ m[b] = Hdr(a, sz)
    /\ Known(m, b + sz - HEADER_SIZE) /\ m[b + sz - HEADER_SIZE] = Hdr(a, sz)

(* the sequence with every b replaced by c *)
Replaced(seq, b, c) == [i \in DOMAIN seq |-> IF seq[i] = b THEN c ELSE seq[i]]

(***************************************************************************)
(* What place leaves when it splits the free block b of heap m for asize   *)
(* bytes (r is its result): the allocated block of asize bytes at the low  *)
(* end when asize - 16 <= 100 and at the high end otherwise, the rest one  *)
(* free block that has the list neighbours b had, every word outside b and *)
(* outside the two links to it as before.                                  *)
(***************************************************************************)
SplitAs(m, r, b, asize) ==
    LET bsize == Size(m, b)
        low   == asize - OVERHEAD <= SMALL_PAYLOAD
        got   == IF low THEN b ELSE b + bsize - asize
        rest  == IF low THEN b + asize ELSE b
        p     == Link(m, b, PREV_OFF)
        t     == Link(m, b, NEXT_OFF)
    IN  /\ r.r = got
        /\ Tagged(r.m, got, asize, ALLOC)
        /\ Tagged(r.m, rest, bsize - asize, FREE)
        /\ Link(r.m, rest, PREV_OFF) = p /\ Link(r.m, rest, NEXT_OFF) = t
        /\ Link(r.m, p, NEXT_OFF) = rest /\ Link(r.m, t, PREV_OFF) = rest
        /\ \A x \in DOMAIN m :
              (x < b \/ x >= b + bsize) /\ x \notin {p + NEXT_OFF, t + PREV_OFF}
                 => Known(r.m, x) /\ r.m[x] = m[x]

FreeCalled == ncalls' # ncalls /\ last'.op = "free"

(* the boundary tags on both sides of block b are determined and say       *)
(* allocated; the block behind the prologue has no tag before it           *)
NeighboursAllocated(m, top, pro, b) ==
    /\ Known(m, b)
    /\ (b - BLOCK_T_SIZE # pro) =>
           Known(m, b - HEADER_SIZE) /\ Alloc(m, b - HEADER_SIZE) = ALLOC
    /\ Known(m, b + Size(m, b)) /\ Alloc(m, b + Size(m, b)) = ALLOC

(***************************************************************************)
(* C23: mm_free(p) links the block at the head of the free list when its   *)
(* block_size at the time of the call minus 16 is <= 100 and at the tail   *)
(* otherwise, whatever size was requested; when neither physical neighbour *)
(* is free the block is the first, respectively the last, entry of the     *)
(* list after the call.                                                    *)
(***************************************************************************)
FreedBlockAtHeadOrTail ==
    [][(FreeCalled /\ NeighboursAllocated(mem, brk, prologue, last'.ptr - HEADER_SIZE)) =>
          LET b == last'.ptr - HEADER_SIZE
          IN  /\ status' # "undefined"
              /\ IF Size(mem, b) - OVERHEAD <= SMALL_PAYLOAD
                 THEN /\ Link(mem', prologue, NEXT_OFF) = b
                      /\ Link(mem', b, PREV_OFF) = prologue
                      /\ Link(mem', b, NEXT_OFF) = Link(mem, prologue, NEXT_OFF)
                 ELSE /\ Link(mem', epilogue_global, PREV_OFF) = b
                      /\ Link(mem', b, NEXT_OFF) = epilogue_global
                      /\ Link(mem', b, PREV_OFF) = Link(mem, epilogue_global, PREV_OFF)
      ]_vars

(* the sequence without the element x *)
Removed(seq, x) == SelectSeq(seq, LAMBDA y : y # x)

(***************************************************************************)
(* The free list and the merged block that mm_free(b + 8) is to leave on   *)
(* heap m, whose list is seq: b goes to the head or the tail by its size,  *)
(* a free successor leaves the list, and with a free predecessor b leaves  *)
(* it too and the predecessor, grown, keeps its slot.                      *)
(***************************************************************************)
AfterFree(m, pro, seq, b) ==
    LET bsize    == Size(m, b)
        prevFree == b - BLOCK_T_SIZE # pro /\ Alloc(m, b - HEADER_SIZE) = FREE
        nextFree == Alloc(m, b + bsize) = FREE
        P        == b - Size(m, b - HEADER_SIZE)
        N        == b + bsize
        others   == IF nextFree THEN Removed(seq, N) ELSE seq
    IN  [list  |-> IF prevFree THEN others
                   ELSE IF bsize - OVERHEAD <= SMALL_PAYLOAD THEN <<b>> \o others
                   ELSE others \o <<b>>,
         block |-> IF prevFree THEN P ELSE b,
         size  |-> bsize + (IF prevFree THEN Size(m, b - HEADER_SIZE) ELSE 0)
                         + (IF nextFree THEN Size(m, N) ELSE 0)]

(* the boundary tags around block b and the free list of m are determined *)
FreeDetermined(m, pro, b) ==
    /\ Known(m, b) /\ Known(m, b + Size(m, b))
    /\ (b - BLOCK_T_SIZE # pro) => Known(m, b - HEADER_SIZE)
    /\ Forward(m, pro).ok

(***************************************************************************)
(* C24: mm_free(p) leaves one free block made of p's block and each        *)
(* physically adjacent free neighbour, its size the sum of theirs (no      *)
(* merge when both neighbours are allocated); the merged block sits in the *)
(* head or tail slot p's block was given if the predecessor was allocated  *)
(* and in the predecessor's slot if the predecessor was free; the order of *)
(* all other entries of the free list is unchanged.                        *)
(***************************************************************************)
FreeMergesNeighbours ==
    [][(FreeCalled /\ FreeDetermined(mem, prologue, last'.ptr - HEADER_SIZE)) =>
          LET e == AfterFree(mem, prologue, Forward(mem, prologue).seq,
                             last'.ptr - HEADER_SIZE)
          IN  /\ status' # "undefined"
              /\ Tagged(mem', e.block, e.size, FREE)
              /\ Forward(mem', prologue).ok
              /\ Forward(mem', prologue).seq = e.list
              /\ Backward(mem', epilogue_global).ok
              /\ Backward(mem', epilogue_global).seq = Reverse(e.list)
      ]_vars

(* the two sentinels of heap m: the prologue at the heap base, allocated,  *)
(* of the size mm_init gave it, and the epilogue record at the end of the  *)
(* heap, allocated, of size 0                                              *)
SentinelsIntact(m, top, pro, epi) ==
    /\ pro = HeapBase
    /\ Known(m, pro) /\ m[pro] = Hdr(ALLOC, BLOCK_T_SIZE)
    /\ epi = top - BLOCK_T_SIZE
    /\ Known(m, epi) /\ m[epi] = Hdr(ALLOC, 0)

(***************************************************************************)
(* C25: in every reachable state the prologue is allocated, at the heap    *)
(* base, with the block_size it was given, and the epilogue is allocated   *)
(* with block_size 0; no mm_malloc returns a sentinel and no mm_free or    *)
(* extension merges a block into one: freeing the block right behind the   *)
(* prologue takes its predecessor for allocated, whatever the link fields  *)
(* of the prologue hold.                                                   *)
(***************************************************************************)
SentinelsStay ==
    [][/\ status' \in {"ready", "overrun"} =>
            /\ SentinelsIntact(mem', brk', prologue', epilogue_global')
            /\ \A p \in DOMAIN live' :
                  /\ p - HEADER_SIZE >= prologue' + BLOCK_T_SIZE
                  /\ p - HEADER_SIZE < epilogue_global'
       /\ (FreeCalled /\ FirstBlock(prologue, last'.ptr - HEADER_SIZE)
              /\ Known(mem, last'.ptr - HEADER_SIZE)
              /\ Known(mem, last'.ptr - HEADER_SIZE + Size(mem, last'.ptr - HEADER_SIZE))) =>
            LET b == last'.ptr - HEADER_SIZE
                next == b + Size(mem, b)
            IN  /\ status' # "undefined"
                /\ Tagged(mem', b, Size(mem, b) + (IF Alloc(mem, next) = FREE
                                                   THEN Size(mem, next) ELSE 0), FREE)
                /\ b \in Range(Forward(mem', prologue).seq)
      ]_vars

(* mm_init was called *)
InitCalled == status = "new" /\ last'.op = "init"

(***************************************************************************)
(* C26: after a successful mm_init the CHUNKSIZE bytes of the heap are     *)
(* the prologue at offset 0, one free block and the epilogue record at     *)
(* the end, with no gap and nothing past the end of the heap (the three    *)
(* sizes add up to CHUNKSIZE); the free list is prologue -> that block ->  *)
(* epilogue; mm_init returns -1 and writes nothing when mem_sbrk fails.    *)
(***************************************************************************)
InitLaysOutOneChunk ==
    [][InitCalled =>
         IF last'.ret = 0
         THEN LET b == prologue' + Size(mem', prologue')
                  s == Size(mem', b)
              IN  /\ status' = "ready"
                  /\ prologue' = HeapBase /\ brk' = HeapBase + CHUNKSIZE
                  /\ Known(mem', prologue') /\ Alloc(mem', prologue') = ALLOC
                  /\ Tagged(mem', b, s, FREE)
                  /\ epilogue_global' = b + s
                  /\ SentinelsIntact(mem', brk', prologue', epilogue_global')
                  /\ Size(mem', prologue') + s + BLOCK_T_SIZE = CHUNKSIZE
                  /\ \A a \in DOMAIN mem' : a >= HeapBase /\ a + HEADER_SIZE <= brk'
                  /\ Link(mem', prologue', NEXT_OFF) = b
                  /\ Link(mem', b, NEXT_OFF) = epilogue_global'
                  /\ Link(mem', epilogue_global', NEXT_OFF) = NULL
                  /\ Link(mem', epilogue_global', PREV_OFF) = b
                  /\ Link(mem', b, PREV_OFF) = prologue'
                  /\ Link(mem', prologue', PREV_OFF) = NULL
                  /\ Forward(mem', prologue') = [seq |-> <<b>>, end |-> epilogue_global', ok |-> TRUE]
         ELSE /\ last'.ret = -1
              /\ status' = "new" /\ mem' = mem /\ brk' = brk
      ]_vars

(* mm_init has just succeeded: the heap is one chunk with one free block   *)
InitDone ==
    /\ status = "ready" /\ last.op = "init" /\ last.ret = 0
    /\ prologue = HeapBase /\ Size(mem, prologue + BLOCK_T_SIZE) = CHUNKSIZE - 2 * BLOCK_T_SIZE

(* the prologue records block_size sz and the first block of the heap      *)
(* starts sz bytes past the heap base: a tag stands there, and no payload  *)
(* handed out starts below the word behind that tag                        *)
PrologueSized(sz) ==
    HasHeap =>
       /\ prologue = HeapBase
       /\ Known(mem, prologue) /\ mem[prologue] = Hdr(ALLOC, sz)
       /\ Known(mem, prologue + sz) /\ mem[prologue + sz].k = "hdr"
       /\ \A p \in DOMAIN live : p >= prologue + sz + HEADER_SIZE

(***************************************************************************)
(* C27: the prologue records a block_size of 32 (header, two link pointers *)
(* and padding), and the first block starts 32 bytes past the heap base.   *)
(***************************************************************************)
PrologueIsPadded == PrologueSized(BLOCK_T_SIZE + HEADER_SIZE)

(***************************************************************************)
(* C27: the prologue records a block_size of 24, the size of block_t       *)
(* (header and two link pointers, no padding), and the first block starts  *)
(* 24 bytes past the heap base, its payload 32 bytes past it.              *)
(***************************************************************************)
PrologueIsBlockT == PrologueSized(BLOCK_T_SIZE)

(* the first block of the heap is allocated: its payload is 32 bytes past  *)
(* the heap base                                                           *)
FirstBlockHandedOut ==
    /\ status = "ready"
    /\ HeapBase + BLOCK_T_SIZE + HEADER_SIZE \in DOMAIN live
    /\ Alloc(mem, HeapBase + BLOCK_T_SIZE) = ALLOC

(* mm_malloc found no fit and extend_heap obtained more heap *)
ExtendCalled == FindFitCalled /\ last'.ext /\ nsbrk' # nsbrk

(* the size of the free block that ends where the epilogue epi of heap m   *)
(* starts, 0 when the block before the epilogue is allocated               *)
FreeBefore(m, epi) ==
    IF Known(m, epi - HEADER_SIZE) /\ Alloc(m, epi - HEADER_SIZE) = FREE
    THEN Size(m, epi - HEADER_SIZE) ELSE 0

(***************************************************************************)
(* C28: after a successful extend_heap for n bytes on a consistent heap    *)
(* the heap has grown by exactly n bytes; the block returned is free, is   *)
(* on the free list, starts at the old epilogue or at the start of the     *)
(* free block that preceded it, has n bytes plus the size of that block,   *)
(* and ends at the new epilogue; the new epilogue is allocated, of size 0, *)
(* with a null next link, in the last 24 bytes of the heap, and is what    *)
(* epilogue_global points to.                                              *)
(***************************************************************************)
ExtendHeapAppendsFreeBlock ==
    [][(ExtendCalled /\ status = "ready") =>
         LET n == ToInt(last'.incr)
             pf == FreeBefore(mem, epilogue_global)
         IN  \E e \in {extend_heap(mem, brk, prologue, epilogue_global,
                                   Shr3(last'.incr), TRUE)} :
               /\ e.ok /\ e.ext
               /\ e.top = brk + n /\ brk' = e.top
               /\ e.r = epilogue_global - pf
               /\ Tagged(e.m, e.r, n + pf, FREE)
               /\ e.r \in Range(Forward(e.m, prologue).seq)
               /\ e.r \in Range(Backward(e.m, e.epi).seq)
               /\ e.r + n + pf = e.epi
               /\ e.epi = e.top - BLOCK_T_SIZE
               /\ Known(e.m, e.epi) /\ e.m[e.epi] = Hdr(ALLOC, 0)
               /\ Link(e.m, e.epi, NEXT_OFF) = NULL
               /\ epilogue_global' = e.epi
      ]_vars

(* the heap was extended behind a free block and the two became one: a    *)
(* free block on the list starts below the old epilogue and ends above it *)
ExtendedBehindFreeBlock ==
    /\ status = "ready" /\ last.ext /\ nsbrk > 0 /\ Fits31(last.incr)
    /\ \E b \in Range(Forward(mem, prologue).seq) :
          /\ Known(mem, b)
          /\ b < brk - ToInt(last.incr) - BLOCK_T_SIZE
          /\ b + Size(mem, b) > brk - ToInt(last.incr) - BLOCK_T_SIZE

(***************************************************************************)
(* C29: after mm_malloc has extended the heap, the block it places, the    *)
(* one extend_heap returned, is the block a second find_fit(asize) on the  *)
(* extended heap would return, for small and for large requests: the       *)
(* address returned is the one a second search would have led to.          *)
(***************************************************************************)
ExtendedBlockIsTheFit ==
    [][ExtendCalled =>
         \E e \in {extend_heap(mem, brk, prologue, epilogue_global,
                               Shr3(last'.incr), TRUE)} :
           /\ e.ok /\ e.r # NULL
           /\ \E f \in {find_fit(e.m, prologue, e.epi, last'.asize)} :
                /\ f.ok /\ f.r = e.r
                /\ \E b \in {place(e.m, e.top, f.r, ToInt(last'.asize))} :
                     /\ b.ok
                     /\ status' # "undefined" => last'.ret = b.r + HEADER_SIZE
      ]_vars

(***************************************************************************)
(* C30: every byte the copy of mm_realloc reads lies in the payload of     *)
(* the old block, [ptr, ptr + block_size - 16): no footer, no header and   *)
(* no byte of a neighbouring block is read, whatever the new size.         *)
(***************************************************************************)
ReallocReadsOnlyOldPayload ==
    [][(ReallocCalled /\ Known(mem, last'.ptr - HEADER_SIZE)) =>
          last'.copy <= Size(mem, last'.ptr - HEADER_SIZE) - OVERHEAD
      ]_vars

(* the blocks of heap m in address order, each with its start address, its *)
(* size and its allocated flag, as the headers give them                   *)
Layout(m, top, pro) ==
    LET w == Blocks(m, top, pro)
    IN  [ok |-> w.ok,
         blocks |-> [i \in DOMAIN w.seq |->
                       <<w.seq[i], Size(m, w.seq[i]), Alloc(m, w.seq[i])>>]]

(***************************************************************************)
(* C31: when mm_malloc(n) returns p without extending the heap and         *)
(* mm_free(p) is called right after it, every block has the start address, *)
(* the size and the allocated flag it had before the mm_malloc, whether    *)
(* place took the whole block, split it low or split it high.              *)
(***************************************************************************)
MallocThenFreeRestoresBlocks ==
    [][(MallocCalled /\ ~last'.ext /\ last'.ret # NULL /\ status' # "undefined") =>
          \E f \in {mm_free(mem', brk', prologue', epilogue_global', last'.ret)} :
             /\ f.ok
             /\ Layout(f.m, brk', prologue') = Layout(mem, brk, prologue)
      ]_vars

====
